---- MODULE Spec2Model ----
(***************************************************************************)
(* A model of packages/core/src/compile.ts of vocab: the placeholder type  *)
(* inferencer, the literal encoders, the type serialiser, generateRuntime  *)
(* with writeIfChanged, the change watcher and the compile orchestrator.   *)
(*                                                                         *)
(* Text is modelled as a sequence of tokens.  Every character that an      *)
(* encoder or a string-literal reader looks at (the single quote, the      *)
(* double quote, the backslash, the characters of user data) is a token of *)
(* its own; a fixed fragment of generated code is one token.               *)
(***************************************************************************)
EXTENDS Integers, Sequences, FiniteSets, TLC

VARIABLES
    \* ---- generateRuntime's synchronous part, applied to one unit
    loadedTranslation,  \* the LoadedTranslation handed to generateRuntime
    translationTypes,   \* the Map<string, TranslationTypeInfo> it builds
    imports,            \* the import lines it accumulates
    serialized,         \* serialiseTranslationRuntime's text
    pcGen,              \* "input" | "typed" | "serialised" | "idle"
    \* ---- the file system
    source,             \* unit -> what loading the unit's resource files yields
    outFile,            \* unit -> the generated module file beside it
    stray,              \* dir -> the authoring file path resolved against process.cwd()
    \* ---- asynchronous activity
    tasks,              \* the generateRuntime invocations, in order of start
    dirHandlers,        \* the onNewDirectory invocations, in order of start
    compilePc,          \* compile(): "off" | "loading" | "generating" | "resolved" | "rejected"
    compileList,        \* the translations loadAllTranslations returned
    compileIdx,         \* index of the unit the for loop is at
    shouldWatch,        \* compile's watch option
    watcher,            \* "none" | "open" | "closed"
    watchStartedBy,     \* who called watch(): "nobody" | "compile"
    closedBy,           \* who closed the watcher: "nobody" | "disposer"
    rootIsCwd,          \* config.projectRoot is unset or equals process.cwd()
    nCaught,            \* errors caught and logged by onTranslationChange
    nEvents             \* events delivered so far (bounded)

vars == <<loadedTranslation, translationTypes, imports, serialized, pcGen,
          source, outFile, stray, tasks, dirHandlers, compilePc, compileList,
          compileIdx, shouldWatch, watcher, watchStartedBy, closedBy,
          rootIsCwd, nCaught, nEvents>>

genVars == <<loadedTranslation, translationTypes, imports, serialized, pcGen>>
asyncVars == <<source, outFile, stray, tasks, dirHandlers, compilePc, compileList,
               compileIdx, shouldWatch, watcher, watchStartedBy, closedBy,
               rootIsCwd, nCaught, nEvents>>

-----------------------------------------------------------------------------
(* Bounds *)

\* longest top-level message AST drawn as an input
MaxLen == 1
\* longest literal-only message (in characters) drawn as an input
MaxMsgLen == 3
\* most watcher events delivered in one behaviour
MaxEvents == 2

-----------------------------------------------------------------------------
(* Text helpers *)

RECURSIVE Cat(_)
\* the concatenation of a sequence of texts
Cat(ss) == IF ss = <<>> THEN <<>> ELSE Head(ss) \o Cat(Tail(ss))

RECURSIVE Join(_, _)
\* Array.prototype.join
Join(ss, sep) ==
    IF ss = <<>> THEN <<>>
    ELSE IF Len(ss) = 1 THEN ss[1]
    ELSE ss[1] \o sep \o Join(Tail(ss), sep)

\* v.replace(/'/g, "\\'")
encodeWithinSingleQuotes(v) ==
    Cat([i \in 1..Len(v) |-> IF v[i] = "'" THEN <<"\\", "'">> ELSE <<v[i]>>])

\* v.replace(/\\/g, '\\\\')
encodeBackslash(v) ==
    Cat([i \in 1..Len(v) |-> IF v[i] = "\\" THEN <<"\\", "\\">> ELSE <<v[i]>>])

\* `'${v}'`
Quoted(v) == <<"'">> \o v \o <<"'">>

-----------------------------------------------------------------------------
(* Message ASTs (MessageFormatElement[]) *)

Lit == [type |-> "literal", value |-> "Hi", options |-> <<>>, children |-> <<>>]
Arg(n) == [type |-> "argument", value |-> n, options |-> <<>>, children |-> <<>>]
Num(n) == [type |-> "number", value |-> n, options |-> <<>>, children |-> <<>>]
Date(n) == [type |-> "date", value |-> n, options |-> <<>>, children |-> <<>>]
Time(n) == [type |-> "time", value |-> n, options |-> <<>>, children |-> <<>>]
Tag(n, c) == [type |-> "tag", value |-> n, options |-> <<>>, children |-> c]
Select(n, o) == [type |-> "select", value |-> n, options |-> o, children |-> <<>>]
Plural(n, o) == [type |-> "plural", value |-> n, options |-> o, children |-> <<>>]
Opt(l, c) == [label |-> l, value |-> c]

isArgumentElement(el) == el.type = "argument"
isNumberElement(el) == el.type = "number"
isDateElement(el) == el.type = "date"
isTimeElement(el) == el.type = "time"
isPluralElement(el) == el.type = "plural"
isSelectElement(el) == el.type = "select"
isTagElement(el) == el.type = "tag"

RECURSIVE PrintAst(_)
\* the ICU source text of an AST (what parse reads to produce it)
PrintAst(ast) ==
    IF ast = <<>> THEN <<>>
    ELSE LET el == Head(ast)
             opts == Cat([i \in 1..Len(el.options) |->
                        <<" ", el.options[i].label, " {">>
                        \o PrintAst(el.options[i].value) \o <<"}">>])
             one ==
               CASE el.type = "literal" -> <<el.value>>
                 [] el.type = "argument" -> <<"{", el.value, "}">>
                 [] el.type = "number" -> <<"{", el.value, ", number}">>
                 [] el.type = "date" -> <<"{", el.value, ", date}">>
                 [] el.type = "time" -> <<"{", el.value, ", time}">>
                 [] el.type = "tag" ->
                      <<"<", el.value, ">">> \o PrintAst(el.children)
                      \o <<"</", el.value, ">">>
                 [] el.type = "select" ->
                      <<"{", el.value, ", select,">> \o opts \o <<"}">>
                 [] el.type = "plural" ->
                      <<"{", el.value, ", plural,">> \o opts \o <<"}">>
                 [] OTHER -> <<>>
         IN one \o PrintAst(Tail(ast))

\* a message of a resource file: its text, and what parse makes of it
\* (bad: parse throws a SyntaxError)
Msg(ast) == [present |-> TRUE, src |-> PrintAst(ast), ast |-> ast, bad |-> FALSE]
LitMsg(chars) == [present |-> TRUE, src |-> chars, ast |-> <<Lit>>, bad |-> FALSE]
BadMsg == [present |-> TRUE, src |-> <<"{">>, ast |-> <<>>, bad |-> TRUE]
NoMsg == [present |-> FALSE, src |-> <<>>, ast |-> <<>>, bad |-> FALSE]

\* parse(message)
parse(m) == m.ast

-----------------------------------------------------------------------------
(* 4.1 Placeholder type inferencer *)

RECURSIVE extractHasTags(_)
extractHasTags(ast) ==
    \E i \in 1..Len(ast) :
        LET element == ast[i] IN
        IF isSelectElement(element)
        THEN \E j \in 1..Len(element.options) :
                extractHasTags(element.options[j].value)
        ELSE isTagElement(element)

\* a placeholder's name (element.value), as text
Name(element) == <<element.value>>

\* ICUParams: an object, as its entries in insertion order
HasKey(params, k) == \E i \in 1..Len(params) : params[i].key = k

\* params[k] = v
Put(params, k, v) ==
    IF HasKey(params, k)
    THEN [i \in 1..Len(params) |->
            IF params[i].key = k THEN [key |-> k, value |-> v] ELSE params[i]]
    ELSE Append(params, [key |-> k, value |-> v])

RECURSIVE Spread(_, _)
\* { ...a, ...b }
Spread(a, b) ==
    IF b = <<>> THEN a ELSE Spread(Put(a, Head(b).key, Head(b).value), Tail(b))

\* new Set([...a, ...b])
SetUnion(a, b) ==
    a \o SelectSeq(b, LAMBDA x : \A i \in 1..Len(a) : a[i] # x)

FormatXMLImport == <<"import { FormatXMLElementFn } from '@vocab/types';">>

\* Object.keys(element.options).map((o) => `'${o}'`).join(' | ')
OptionUnion(options) ==
    Join([i \in 1..Len(options) |-> Quoted(<<options[i].label>>)], <<" | ">>)

\* params and imports, as extractParamTypes returns them
Types(params, imps) == [params |-> params, imports |-> imps]

\* params = { ...params, ...sub[0] }; imports = new Set([...imports, ...sub[1]])
MergeTypes(acc, sub) ==
    Types(Spread(acc.params, sub.params), SetUnion(acc.imports, sub.imports))

\* params[element.value] = type
PutType(acc, element, type) == Types(Put(acc.params, Name(element), type), acc.imports)

\* the tag branch before its recursion: the entry and the import
PutTag(acc, element) ==
    Types(Put(acc.params, Name(element), <<"FormatXMLElementFn<T>">>),
          SetUnion(acc.imports, <<FormatXMLImport>>))

RECURSIVE ParamFold(_, _)
RECURSIVE ChildFold(_, _)
\* one turn of the for loop of extractParamTypes
ParamStep(element, acc) ==
    IF isArgumentElement(element) THEN PutType(acc, element, <<"string">>)
    ELSE IF isNumberElement(element) THEN PutType(acc, element, <<"number">>)
    ELSE IF isPluralElement(element) THEN PutType(acc, element, <<"number">>)
    ELSE IF isDateElement(element) \/ isTimeElement(element)
    THEN PutType(acc, element, <<"Date | number">>)
    ELSE IF isTagElement(element)
    THEN MergeTypes(PutTag(acc, element),
                    ParamFold(element.children, Types(<<>>, <<>>)))
    ELSE IF isSelectElement(element)
    THEN ChildFold(element.options,
                   PutType(acc, element, OptionUnion(element.options)))
    ELSE acc

\* the for loop of extractParamTypes over ast, from acc
ParamFold(ast, acc) ==
    IF ast = <<>> THEN acc
    ELSE ParamFold(Tail(ast), ParamStep(Head(ast), acc))

\* the inner for loop over a select's children
ChildFold(options, acc) ==
    IF options = <<>> THEN acc
    ELSE ChildFold(Tail(options),
                   MergeTypes(acc, ParamFold(Head(options).value, Types(<<>>, <<>>))))

extractParamTypes(ast) == ParamFold(ast, Types(<<>>, <<>>))

-----------------------------------------------------------------------------
(* 4.3 Type/value serialiser *)

\* serialiseObjectToType, for an object whose values are code fragments
\* (no caller in compile.ts passes a nested object)
serialiseObjectToType(v) ==
    <<"{ ">>
    \o Cat([i \in 1..Len(v) |->
              Quoted(encodeWithinSingleQuotes(v[i].key)) \o <<": ">>
              \o v[i].value \o <<",">>])
    \o <<" }">>

-----------------------------------------------------------------------------
(* LoadedTranslation *)

\* translatedLanguage[key]
Entry(translations, key) ==
    IF \E i \in 1..Len(translations) : translations[i].key = key
    THEN translations[CHOOSE i \in 1..Len(translations) : translations[i].key = key].entry
    ELSE NoMsg

\* a language of a unit: its name and its key -> { message } object
Language(name, key, m) ==
    [name |-> name,
     translations |-> IF m.present THEN <<[key |-> key, entry |-> m]>> ELSE <<>>]

\* a unit with one key and the languages en and fr
Unit(path, en, fr) ==
    [filePath |-> path,
     keys |-> << <<"k">> >>,
     languages |-> <<Language("en", <<"k">>, en), Language("fr", <<"k">>, fr)>>]

-----------------------------------------------------------------------------
(* 4.4 Runtime module generator: the synchronous part *)

\* `'${encodeWithinSingleQuotes(translatedLanguage[key].message)}'`
MessageLiteral(m) == Quoted(encodeWithinSingleQuotes(m.src))

\* hasTags = hasTags || extractHasTags(ast)
AccumulateHasTags(hasTags, ast) == hasTags \/ extractHasTags(ast)

\* one turn of the loop over the languages, for a language that has the key:
\* parsed is extractParamTypes(parse(message))
LanguageStep(acc, m, parsed) ==
    [params |-> Spread(acc.params, parsed.params),
     hasTags |-> AccumulateHasTags(acc.hasTags, parse(m)),
     messages |-> SetUnion(acc.messages, <<MessageLiteral(m)>>),
     imports |-> SetUnion(acc.imports, parsed.imports)]

\* `if (translatedLanguage[key])`
LanguageTurn(acc, m) ==
    IF ~m.present THEN acc ELSE LanguageStep(acc, m, extractParamTypes(parse(m)))

RECURSIVE LanguageFold(_, _, _)
\* the loop over Object.values(loadedLanguages) for one key
LanguageFold(langs, key, acc) ==
    IF langs = <<>> THEN acc
    ELSE LanguageFold(Tail(langs), key,
                      LanguageTurn(acc, Entry(Head(langs).translations, key)))

\* translationTypes.set(key, { params, hasTags, message, returnType })
KeyInfo(key, acc) ==
    [key |-> key,
     params |-> acc.params,
     hasTags |-> acc.hasTags,
     message |-> Join(acc.messages, <<" | ">>),
     returnType |-> IF acc.hasTags THEN <<"NonNullable<ReactNode>">>
                    ELSE <<"string">>]

RECURSIVE KeyFold(_, _, _, _)
\* the end of one turn of the loop over the keys: acc is what the loop over
\* the languages left
KeyTurn(lt, i, types, acc) ==
    KeyFold(lt, i + 1, Append(types, KeyInfo(lt.keys[i], acc)), acc.imports)

\* the loop over loadedTranslation.keys: the translationTypes map and the imports
KeyFold(lt, i, types, imps) ==
    IF i > Len(lt.keys) THEN [types |-> types, imports |-> imps]
    ELSE KeyTurn(lt, i, types,
                 LanguageFold(lt.languages, lt.keys[i],
                              [params |-> <<>>, hasTags |-> FALSE,
                               messages |-> <<>>, imports |-> imps]))

\* parse throws on some message of the unit
ParseThrows(lt) ==
    \E l \in 1..Len(lt.languages) :
        \E k \in 1..Len(lt.keys) :
            LET m == Entry(lt.languages[l].translations, lt.keys[k])
            IN m.present /\ m.bad

InferTypes(lt) == KeyFold(lt, 1, <<>>, <<>>)

-----------------------------------------------------------------------------
(* serialiseTranslationRuntime *)

banner ==
    <<"// This file is automatically generated by Vocab.\n// To make changes update translation.json files directly.">>

\* the accessor type of one key
TranslationFunctionString(info) ==
    IF Len(info.params) > 0
    THEN LET formatGeneric == IF info.hasTags THEN <<"<T = string>">> ELSE <<>>
             formatReturn == IF info.hasTags
                             THEN <<"string | T | Array<string | T>">>
                             ELSE <<"string">>
         IN formatGeneric \o <<"(values: ">> \o serialiseObjectToType(info.params)
            \o <<") => ">> \o formatReturn
    ELSE <<"() => ">> \o info.message

\* the translationsType object
TranslationsType(types) ==
    [i \in 1..Len(types) |->
        [key |-> encodeBackslash(types[i].key),
         value |-> TranslationFunctionString(types[i])]]

\* JSON.stringify of a string
JSONString(v) ==
    <<"\"">>
    \o Cat([i \in 1..Len(v) |->
              IF v[i] = "\"" \/ v[i] = "\\" THEN <<"\\", v[i]>> ELSE <<v[i]>>])
    \o <<"\"">>

\* JSON.stringify(getTranslationMessages(translations))
MessagesJSON(translations) ==
    <<"{">>
    \o Join([i \in 1..Len(translations) |->
               JSONString(translations[i].key) \o <<":">>
               \o JSONString(translations[i].entry.src)], <<",">>)
    \o <<"}">>

serialiseTranslationRuntime(types, imps, lt) ==
    LET content ==
          Join([i \in 1..Len(lt.languages) |->
                  Quoted(encodeWithinSingleQuotes(<<lt.languages[i].name>>))
                  \o <<": createLanguage(">>
                  \o MessagesJSON(lt.languages[i].translations) \o <<")">>],
               <<",">>)
        languagesUnionAsString ==
          Join([i \in 1..Len(lt.languages) |-> Quoted(<<lt.languages[i].name>>)],
               <<" | ">>)
    IN banner \o <<"\n\n  ">> \o Join(imps, <<"\n">>)
       \o <<"\n  import { createLanguage, createTranslationFile } from '@vocab/core/runtime';\n\n  const translations = createTranslationFile<">>
       \o languagesUnionAsString \o <<", ">>
       \o serialiseObjectToType(TranslationsType(types))
       \o <<">({">> \o content
       \o <<"});\n\n  export default translations;">>

-----------------------------------------------------------------------------
(* Inputs of the synchronous part *)

\* all sequences over S of length at most n
SeqsUpTo(S, n) == UNION {[1..k -> S] : k \in 0..n}

Leaves == {Lit, Arg("n"), Num("n"), Date("n")}
Kids == {<<x>> : x \in Leaves}
Nodes ==
    Leaves
    \cup {Tag("b", c) : c \in Kids}
    \cup {Select("s", <<Opt("a", c)>>) : c \in Kids}
    \cup {Plural("c", <<Opt("other", c)>>) : c \in Kids}

\* messages nested deeper than Nodes, or with more branches
DeepSamples ==
    { <<Plural("c", <<Opt("one", <<Lit>>), Opt("other", <<Tag("b", <<Lit>>)>>)>>)>>,
      <<Select("s", <<Opt("a", <<Tag("b", <<Arg("n")>>)>>), Opt("other", <<Lit>>)>>)>>,
      <<Select("s", <<Opt("a", <<Select("t", <<Opt("x", <<Arg("n")>>)>>)>>)>>)>>,
      <<Plural("c", <<Opt("other", <<Select("s", <<Opt("a", <<Arg("n")>>)>>)>>)>>)>>,
      <<Tag("b", <<Plural("c", <<Opt("other", <<Time("n")>>)>>)>>)>>,
      <<Select("s", <<Opt("a", <<Arg("n")>>), Opt("other", <<Num("n")>>)>>)>> }

AstInputs == SeqsUpTo(Nodes, MaxLen) \cup DeepSamples

Chars == {"'", "\\", "a"}
LitInputs == SeqsUpTo(Chars, MaxMsgLen) \ {<<>>}

GenInputs ==
    {Unit("a", Msg(a), f) : a \in AstInputs, f \in {Msg(b) : b \in AstInputs} \cup {NoMsg}}
    \cup {Unit("a", LitMsg(c), f) : c \in LitInputs, f \in {NoMsg, LitMsg(<<"a">>)}}
    \cup {Unit("a", Msg(<<Lit>>), BadMsg)}

-----------------------------------------------------------------------------
(* The synchronous part of generateRuntime as a state machine *)

GenIdle ==
    /\ loadedTranslation = Unit("a", NoMsg, NoMsg)
    /\ translationTypes = <<>>
    /\ imports = <<>>
    /\ serialized = <<>>
    /\ pcGen = "idle"

AsyncIdle ==
    /\ source = <<>>
    /\ outFile = <<>>
    /\ stray = <<>>
    /\ tasks = <<>>
    /\ dirHandlers = <<>>
    /\ compilePc = "off"
    /\ compileList = <<>>
    /\ compileIdx = 0
    /\ shouldWatch = FALSE
    /\ watcher = "none"
    /\ watchStartedBy = "nobody"
    /\ closedBy = "nobody"
    /\ rootIsCwd = TRUE
    /\ nCaught = 0
    /\ nEvents = 0

GenInit ==
    /\ loadedTranslation \in GenInputs
    /\ translationTypes = <<>>
    /\ imports = <<>>
    /\ serialized = <<>>
    /\ pcGen = "input"
    /\ AsyncIdle

\* generateRuntime up to its first await: the loop over keys and languages
GenTypes ==
    /\ pcGen = "input"
    /\ IF ParseThrows(loadedTranslation)
       THEN /\ pcGen' = "threw"
            /\ UNCHANGED <<translationTypes, imports>>
       ELSE /\ translationTypes' = InferTypes(loadedTranslation).types
            /\ imports' = InferTypes(loadedTranslation).imports
            /\ pcGen' = "typed"
    /\ UNCHANGED <<loadedTranslation, serialized>>
    /\ UNCHANGED asyncVars

\* generateRuntime after prettier.resolveConfig: serialiseTranslationRuntime
GenSerialise ==
    /\ pcGen = "typed"
    /\ serialized' = serialiseTranslationRuntime(translationTypes, imports, loadedTranslation)
    /\ pcGen' = "serialised"
    /\ UNCHANGED <<loadedTranslation, translationTypes, imports>>
    /\ UNCHANGED asyncVars

GenNext == GenTypes \/ GenSerialise

SpecGen == GenInit /\ [][GenNext]_vars

-----------------------------------------------------------------------------
(* What the claims about the synchronous part speak of *)

\* the messages of key k of the unit under generation, in language order
MessagesOf(k) ==
    LET all == [l \in 1..Len(loadedTranslation.languages) |->
                  Entry(loadedTranslation.languages[l].translations,
                        loadedTranslation.keys[k])]
    IN SelectSeq(all, LAMBDA m : m.present)

RECURSIVE ContainsTag(_)
\* a tag placeholder occurs in ast at some depth: at the top level, inside a
\* tag, inside a select option or inside a plural branch
ContainsTag(ast) ==
    \E i \in 1..Len(ast) :
        \/ ast[i].type = "tag"
        \/ \E j \in 1..Len(ast[i].options) : ContainsTag(ast[i].options[j].value)

\* the type the spec gives a placeholder of this kind
TypeOfKind(el) ==
    CASE el.type = "argument" -> <<"string">>
      [] el.type = "number" -> <<"number">>
      [] el.type = "plural" -> <<"number">>
      [] el.type = "date" -> <<"Date | number">>
      [] el.type = "time" -> <<"Date | number">>
      [] el.type = "tag" -> <<"FormatXMLElementFn<T>">>
      [] el.type = "select" ->
           Join([i \in 1..Len(el.options) |-> <<"'", el.options[i].label, "'">>],
                <<" | ">>)
      [] OTHER -> <<>>

RECURSIVE Occurrences(_, _, _)
\* the placeholders of ast in source order, each with its name, kind, the type
\* of its kind, and whether it lies in a plural branch / in any plural or
\* select branch
Occurrences(ast, inPlural, inBranch) ==
    IF ast = <<>> THEN <<>>
    ELSE
      LET el == Head(ast)
          self == IF el.type = "literal" THEN <<>>
                  ELSE <<[name |-> <<el.value>>, kind |-> el.type,
                          type |-> TypeOfKind(el),
                          inPlural |-> inPlural, inBranch |-> inBranch]>>
          below ==
            Occurrences(el.children, inPlural, inBranch)
            \o Cat([j \in 1..Len(el.options) |->
                      Occurrences(el.options[j].value,
                                  inPlural \/ el.type = "plural", TRUE)])
      IN self \o below \o Occurrences(Tail(ast), inPlural, inBranch)

\* the placeholders of all messages of key k, in language order
KeyOccurrences(k) ==
    Cat([l \in 1..Len(MessagesOf(k)) |-> Occurrences(MessagesOf(k)[l].ast, FALSE, FALSE)])

\* params[name]
Value(params, name) ==
    params[CHOOSE i \in 1..Len(params) : params[i].key = name].value

\* all placeholders called name among occ are of one type
OneType(occ, name) ==
    \A i, j \in 1..Len(occ) :
        (occ[i].name = name /\ occ[j].name = name) => occ[i].type = occ[j].type

\* reading text as a single-quoted string literal of the generated language:
\* [ok |-> it is one well-formed literal, value |-> the string it denotes]
RECURSIVE ReadBody(_, _, _)
ReadBody(text, i, acc) ==
    IF i > Len(text) THEN [ok |-> FALSE, value |-> acc]
    ELSE IF text[i] = "'" THEN [ok |-> i = Len(text), value |-> acc]
    ELSE IF text[i] = "\\"
         THEN IF i = Len(text) THEN [ok |-> FALSE, value |-> acc]
              ELSE ReadBody(text, i + 2, Append(acc, text[i + 1]))
    ELSE ReadBody(text, i + 1, Append(acc, text[i]))

ReadSingleQuoted(text) ==
    IF Len(text) = 0 \/ text[1] # "'" THEN [ok |-> FALSE, value |-> <<>>]
    ELSE ReadBody(text, 2, <<>>)

-----------------------------------------------------------------------------
(* Claims about the synchronous part (checked under SpecGen) *)

\* C4: for every key, if some locale's message contains a tag placeholder at
\* any depth (top level, inside a tag, a select option or a plural branch),
\* then the key's hasTags flag is true and its accessor has the generic,
\* broadened return type, whatever the other locales' messages are.
C4_StickyMarkup ==
    pcGen \in {"typed", "serialised"} =>
        \A k \in 1..Len(translationTypes) :
            (\E l \in 1..Len(MessagesOf(k)) : ContainsTag(MessagesOf(k)[l].ast))
            => /\ translationTypes[k].hasTags
               /\ LET f == TranslationFunctionString(translationTypes[k])
                  IN /\ f[1] = "<T = string>"
                     /\ f[Len(f)] = "string | T | Array<string | T>"

\* C5: for every key, if any locale's message contains an
\* argument placeholder named n, the merged parameter map maps n to string,
\* whatever the other placeholders of those messages are.
C5_ArgumentIsString ==
    pcGen \in {"typed", "serialised"} =>
        \A k \in 1..Len(translationTypes) :
            \A i \in 1..Len(KeyOccurrences(k)) :
                KeyOccurrences(k)[i].kind = "argument"
                => /\ HasKey(translationTypes[k].params, KeyOccurrences(k)[i].name)
                   /\ Value(translationTypes[k].params, KeyOccurrences(k)[i].name)
                        = <<"string">>

\* C6: for every message over an alphabet with the single quote and the
\* backslash, the single-quoted literal generateRuntime embeds for it (here:
\* the whole message type of a key that one locale defines), read back as a
\* single-quoted string literal, is well-formed and denotes the message.
C6_LiteralRoundTrip ==
    (pcGen \in {"typed", "serialised"} /\ Len(MessagesOf(1)) = 1) =>
        /\ translationTypes[1].message = MessageLiteral(MessagesOf(1)[1])
        /\ ReadSingleQuoted(translationTypes[1].message)
             = [ok |-> TRUE, value |-> MessagesOf(1)[1].src]

\* C9: for every message AST, each placeholder inside a plural branch or a
\* select option (at any depth) is in extractParamTypes' map with the type of
\* its kind (where the name has one type in the message), and so are the
\* plural (number) and the select (union of its quoted labels) themselves.
\* Read off the map of a key that a single locale defines.
C9_NestedPlaceholders ==
    (pcGen \in {"typed", "serialised"} /\ Len(MessagesOf(1)) = 1) =>
        LET occ == KeyOccurrences(1)
            params == translationTypes[1].params
        IN \A i \in 1..Len(occ) :
              (occ[i].inBranch \/ occ[i].kind \in {"plural", "select"})
              => /\ HasKey(params, occ[i].name)
                 /\ OneType(occ, occ[i].name) => Value(params, occ[i].name) = occ[i].type

-----------------------------------------------------------------------------
(* The file system and the collaborators of the asynchronous part *)

\* the translation directories of the project, in the order the loader's glob
\* yields them; a unit is named by its directory
UnitIds == <<"a", "b">>
UnitSet == {UnitIds[i] : i \in 1..Len(UnitIds)}
\* a directory that is no translation directory
OtherDir == "x"

\* isTranslationDirectory(relativePath, config)
isTranslationDirectory(d) == d \in UnitSet

\* a unit whose authoring file holds the empty object
EmptyUnit(u) ==
    [filePath |-> u,
     keys |-> <<>>,
     languages |-> <<Language("en", <<"k">>, NoMsg), Language("fr", <<"k">>, NoMsg)>>]

\* the resource files of a unit: absent, unreadable by the loader, or data
NoSource(u) == [kind |-> "absent", data |-> EmptyUnit(u)]
InvalidSource(u) == [kind |-> "invalid", data |-> EmptyUnit(u)]
Data(lt) == [kind |-> "data", data |-> lt]

\* JSON.stringify({}, null, 2) written as the authoring file
SeedSource(u) == Data(EmptyUnit(u))

Hello(u) == Unit(u, Msg(<<Lit>>), Msg(<<Lit>>))
HelloName(u) == Unit(u, Msg(<<Lit, Arg("n")>>), NoMsg)
Broken(u) == Unit(u, BadMsg, NoMsg)

\* a file of generated text: absent, the formatter's output, or the bytes of
\* two overlapping writes
NoFile == [kind |-> "absent", config |-> "", code |-> <<>>]
TornFile == [kind |-> "torn", config |-> "", code |-> <<>>]

\* await prettier.resolveConfig(filePath)
resolveConfig(filePath) == "prettierrc"

\* prettier.format(code, { ...prettierConfig, parser: 'typescript' })
format(code, config) == [kind |-> "file", config |-> config, code |-> code]

\* serialiseTranslationRuntime and prettier.format on what the loops left
DeclarationOf(t, lt) ==
    format(serialiseTranslationRuntime(t.types, t.imports, lt),
           resolveConfig(lt.filePath))

\* generateRuntime's declaration for a unit whose messages parse
Declaration(lt) == DeclarationOf(InferTypes(lt), lt)

\* a slip: hasChanged never updated from the comparison
HasChangedAlways(existing, contents) == TRUE

\* writeIfChanged: hasChanged after the read of the existing file
HasChanged(existing, contents) ==
    IF existing.kind = "absent" THEN TRUE ELSE existing # contents

-----------------------------------------------------------------------------
(* generateRuntime invocations *)

\* owner: "compile" (the orchestrator's loop), "watch" (onTranslationChange),
\*        "direct" (a caller of the exported generateRuntime)
\* pc:    "load"  awaiting loadTranslation (watch only)
\*        "read"  in writeIfChanged, awaiting fs.readFile
\*        "write" in writeIfChanged, awaiting fs.writeFile
\*        "resolved" | "rejected": how the owner's promise settled
NewTask(owner, target, pc, lt) ==
    [owner |-> owner, target |-> target, pc |-> pc, data |-> lt,
     contents |-> NoFile, existing |-> NoFile, wrote |-> FALSE, overlapped |-> FALSE,
     caught |-> FALSE, caughtBefore |-> nCaught]

\* generateRuntime(lt) up to the read: a parse error rejects, otherwise the
\* declaration is built (resolveConfig's await touches nothing shared) and
\* writeIfChanged issues the read
Generate(task, lt) ==
    IF ParseThrows(lt)
    THEN [task EXCEPT !.data = lt, !.pc = "failed"]
    ELSE [task EXCEPT !.data = lt, !.pc = "read", !.contents = Declaration(lt)]

\* a slip: the awaits outside any try/catch
HandlerOutcomeNoCatch(failed) == IF failed THEN "rejected" ELSE "resolved"

\* how onTranslationChange's promise settles: the try/catch logs every error
HandlerOutcome(failed) == "resolved"

\* how a task's owner sees it settle
Settle(task, failed) ==
    IF task.owner = "watch"
    THEN [task EXCEPT !.pc = HandlerOutcome(failed), !.caught = failed]
    ELSE [task EXCEPT !.pc = IF failed THEN "rejected" ELSE "resolved"]

\* a task left at "failed" by Generate settles at once
SettleIfFailed(task) == IF task.pc = "failed" THEN Settle(task, TRUE) ELSE task

\* tasks other than i that are writing task i's file
WritersBeside(i) ==
    {j \in 1..Len(tasks) : j # i /\ tasks[j].pc = "write"
                           /\ tasks[j].target = tasks[i].target}

\* those of them that are writing other bytes than task i's
ConflictingWriters(i) ==
    {j \in WritersBeside(i) : tasks[j].contents # tasks[i].contents}

-----------------------------------------------------------------------------
(* 4.6 Compile orchestrator *)

\* a slip: each unit's failure swallowed, the loop going on
AwaitGenerateSwallows(outcome) == "next"

\* what the for loop does with `await generateRuntime(...)`: a rejection
\* leaves the loop and rejects compile
AwaitGenerate(outcome) == IF outcome = "rejected" THEN "rejected" ELSE "next"

\* what compile has come to: its tasks, its position, and the watcher it
\* started (or not)
CompileAt(ts, pc, idx) ==
    [tasks |-> ts, pc |-> pc, idx |-> idx,
     watcher |-> IF pc = "resolved" /\ shouldWatch THEN "open" ELSE "none",
     startedBy |-> IF pc = "resolved" /\ shouldWatch THEN "compile" ELSE "nobody"]

\* generateRuntime(loadedTranslation) called by the loop, up to its first await
\* that touches the files
CompileTask(lt) ==
    SettleIfFailed(Generate(NewTask("compile", lt.filePath, "read", lt), lt))

RECURSIVE CompileLoop(_, _, _)
\* one turn of the loop, t being the call of generateRuntime it made
CompileTurn(ts, list, idx, t) ==
    IF t.pc \in {"resolved", "rejected"}
    THEN IF AwaitGenerate(t.pc) = "rejected"
         THEN CompileAt(Append(ts, t), "rejected", idx)
         ELSE CompileLoop(Append(ts, t), list, idx + 1)
    ELSE CompileAt(Append(ts, t), "generating", idx)

\* the loop of compile at position idx over list, given the tasks so far:
\* start generateRuntime on list[idx], or finish
CompileLoop(ts, list, idx) ==
    IF idx > Len(list)
    THEN CompileAt(ts, "resolved", idx)
    ELSE CompileTurn(ts, list, idx, CompileTask(list[idx]))

\* compile moves to r
CompileBecomes(r) ==
    /\ tasks' = r.tasks
    /\ compilePc' = r.pc
    /\ compileIdx' = r.idx
    /\ watcher' = r.watcher
    /\ watchStartedBy' = r.startedBy

\* loadAllTranslations({ fallbacks: 'all', includeNodeModules: false }, config)
LoadAllThrows == \E u \in UnitSet : source[u].kind = "invalid"
loadAllTranslations ==
    LET present == SelectSeq(UnitIds, LAMBDA u : source[u].kind = "data")
    IN [i \in 1..Len(present) |-> source[present[i]].data]

\* compile(): loadAllTranslations settles, and the loop starts
CompileLoad ==
    /\ compilePc = "loading"
    /\ IF LoadAllThrows
       THEN /\ compilePc' = "rejected"
            /\ UNCHANGED <<tasks, compileList, compileIdx, watcher, watchStartedBy>>
       ELSE /\ compileList' = loadAllTranslations
            /\ CompileBecomes(CompileLoop(tasks, loadAllTranslations, 1))
    /\ UNCHANGED <<source, outFile, stray, dirHandlers, shouldWatch, closedBy,
                   rootIsCwd, nCaught, nEvents>>
    /\ UNCHANGED genVars

\* the state after task i settled as t
TaskSettled(i, t) ==
    IF t.owner = "compile"
    THEN /\ CompileBecomes(
              IF AwaitGenerate(t.pc) = "rejected"
              THEN [tasks |-> [tasks EXCEPT ![i] = t], pc |-> "rejected",
                    idx |-> compileIdx, watcher |-> watcher,
                    startedBy |-> watchStartedBy]
              ELSE CompileLoop([tasks EXCEPT ![i] = t], compileList, compileIdx + 1))
         /\ UNCHANGED nCaught
    ELSE /\ tasks' = [tasks EXCEPT ![i] = t]
         /\ nCaught' = IF t.caught THEN nCaught + 1 ELSE nCaught
         /\ UNCHANGED <<compilePc, compileIdx, watcher, watchStartedBy>>

\* the state after task i, now at record task, settles with `failed`
AfterSettle(i, task, failed) == TaskSettled(i, Settle(task, failed))

-----------------------------------------------------------------------------
(* writeIfChanged *)

\* fs.readFile settles.  While another write to the file is in flight the
\* read may see part of it.
ReadDone(i, partial) ==
    /\ i \in 1..Len(tasks)
    /\ tasks[i].pc = "read"
    /\ partial => WritersBeside(i) # {}
    /\ LET existing == IF partial THEN TornFile ELSE outFile[tasks[i].target]
       IN IF HasChanged(existing, tasks[i].contents)
          THEN /\ tasks' = [j \in 1..Len(tasks) |->
                             IF j = i
                             THEN [tasks[i] EXCEPT !.pc = "write", !.wrote = TRUE,
                                                   !.existing = existing,
                                                   !.overlapped = ConflictingWriters(i) # {}]
                             ELSE IF j \in ConflictingWriters(i)
                             THEN [tasks[j] EXCEPT !.overlapped = TRUE]
                             ELSE tasks[j]]
               /\ UNCHANGED <<compilePc, compileIdx, watcher, watchStartedBy, nCaught>>
          ELSE AfterSettle(i, [tasks[i] EXCEPT !.existing = existing], FALSE)
    /\ UNCHANGED <<source, outFile, stray, dirHandlers, compileList, shouldWatch,
                   closedBy, rootIsCwd, nEvents>>
    /\ UNCHANGED genVars

\* fs.writeFile settles: it fails, or the file holds the contents; a write
\* that overlapped a write of other bytes to the same file may leave a mixture
\* of the two (fs.writeFile truncates, then writes; nothing orders the two)
WriteDone(i, ok, torn) ==
    /\ i \in 1..Len(tasks)
    /\ tasks[i].pc = "write"
    /\ torn => (ok /\ tasks[i].overlapped)
    /\ outFile' = IF ~ok THEN outFile
                  ELSE [outFile EXCEPT ![tasks[i].target] =
                          IF torn THEN TornFile ELSE tasks[i].contents]
    /\ AfterSettle(i, tasks[i], ~ok)
    /\ UNCHANGED <<source, stray, dirHandlers, compileList, shouldWatch,
                   closedBy, rootIsCwd, nEvents>>
    /\ UNCHANGED genVars

-----------------------------------------------------------------------------
(* 4.5 Change watcher *)

NoEdit(u) == [kind |-> "none", data |-> EmptyUnit(u)]

\* what an edit can leave in a unit's resource files; the session edits the
\* first unit only (the other units get their events without an edit)
Edits(u) ==
    IF u = UnitIds[1]
    THEN {Data(HelloName(u)), Data(Broken(u)), InvalidSource(u)}
    ELSE {}

\* chokidar delivers 'add' or 'change' for a path of unit u's directory,
\* after an edit of the unit's files (modelled on the authoring file's event)
\* or without one.  cls is what
\* isDevLanguageFile / isAltLanguageFile make of the path: "dev", "alt", or
\* "other" (neither: no action); both of the first two resolve to the unit's
\* authoring file as targetFile.  onTranslationChange runs up to its await of
\* loadTranslation.
FileEvent(u, cls, edit) ==
    /\ watcher = "open"
    /\ nEvents < MaxEvents
    /\ cls # "dev" => edit = NoEdit(u)
    /\ cls = "alt" => source[u].kind # "absent"
    /\ nEvents' = nEvents + 1
    /\ source' = IF edit.kind = "none" THEN source ELSE [source EXCEPT ![u] = edit]
    /\ tasks' = IF cls = "other" THEN tasks
                ELSE Append(tasks, NewTask("watch", u, "load", EmptyUnit(u)))
    /\ UNCHANGED <<outFile, stray, dirHandlers, compilePc, compileList, compileIdx,
                   shouldWatch, watcher, watchStartedBy, closedBy, rootIsCwd, nCaught>>
    /\ UNCHANGED genVars

\* onTranslationChange after its await of loadTranslation: src is what the
\* loader found
Loaded(task, src) ==
    IF src.kind = "data" THEN Generate(task, src.data)
    ELSE [task EXCEPT !.pc = "failed"]

\* task i goes on as t
LoadedBecomes(i, t) ==
    IF t.pc = "failed"
    THEN AfterSettle(i, t, TRUE)
    ELSE /\ tasks' = [tasks EXCEPT ![i] = t]
         /\ UNCHANGED <<compilePc, compileIdx, watcher, watchStartedBy, nCaught>>

\* loadTranslation({ filePath: targetFile, fallbacks: 'all' }, config) settles;
\* on success generateRuntime runs up to the read
LoadDone(i) ==
    /\ i \in 1..Len(tasks)
    /\ tasks[i].pc = "load"
    /\ LoadedBecomes(i, Loaded(tasks[i], source[tasks[i].target]))
    /\ UNCHANGED <<source, outFile, stray, dirHandlers, compileList, shouldWatch,
                   closedBy, rootIsCwd, nEvents>>
    /\ UNCHANGED genVars

\* existsSync(path.join(relativePath, devTranslationFileName)): the relative
\* path is resolved against process.cwd(), not against the watcher's cwd
existsSyncNewFilePath(d) ==
    IF rootIsCwd THEN source[d].kind # "absent" ELSE stray[d]

\* chokidar delivers 'addDir' for directory d; onNewDirectory runs up to its
\* await of fs.writeFile (or to its end)
AddDir(d) ==
    /\ watcher = "open"
    /\ nEvents < MaxEvents
    /\ nEvents' = nEvents + 1
    /\ LET h == [dir |-> d,
                 matches |-> isTranslationDirectory(d),
                 hadFile |-> isTranslationDirectory(d) /\ source[d].kind # "absent",
                 pc |-> "resolved", wrote |-> FALSE, created |-> FALSE,
                 overwrote |-> FALSE]
       IN dirHandlers' =
            Append(dirHandlers,
                   IF ~isTranslationDirectory(d) THEN h
                   ELSE IF ~existsSyncNewFilePath(d)
                   THEN [h EXCEPT !.pc = "write", !.wrote = TRUE]
                   ELSE h)
    /\ UNCHANGED <<source, outFile, stray, tasks, compilePc, compileList, compileIdx,
                   shouldWatch, watcher, watchStartedBy, closedBy, rootIsCwd, nCaught>>
    /\ UNCHANGED genVars

\* onNewDirectory's fs.writeFile(newFilePath, JSON.stringify({}, null, 2))
\* settles.  A file written at the watched authoring path makes chokidar
\* deliver 'add' (or 'change') for it while the watcher is open.
DirWriteDone(j, ok) ==
    /\ j \in 1..Len(dirHandlers)
    /\ dirHandlers[j].pc = "write"
    /\ LET d == dirHandlers[j].dir IN
       IF ~ok
       THEN /\ dirHandlers' = [dirHandlers EXCEPT ![j].pc = "rejected"]
            /\ UNCHANGED <<source, stray, tasks>>
       ELSE IF rootIsCwd
       THEN /\ dirHandlers' = [dirHandlers EXCEPT
                                 ![j].pc = "resolved",
                                 ![j].created = source[d].kind = "absent",
                                 ![j].overwrote = source[d].kind # "absent"]
            /\ source' = [source EXCEPT ![d] = SeedSource(d)]
            /\ tasks' = IF watcher = "open"
                        THEN Append(tasks, NewTask("watch", d, "load", EmptyUnit(d)))
                        ELSE tasks
            /\ UNCHANGED stray
       ELSE /\ dirHandlers' = [dirHandlers EXCEPT ![j].pc = "resolved"]
            /\ stray' = [stray EXCEPT ![d] = TRUE]
            /\ UNCHANGED <<source, tasks>>
    /\ UNCHANGED <<outFile, compilePc, compileList, compileIdx, shouldWatch,
                   watcher, watchStartedBy, closedBy, rootIsCwd, nCaught, nEvents>>
    /\ UNCHANGED genVars

\* the disposer watch() returned: () => watcher.close()
Dispose ==
    /\ watcher = "open"
    /\ watcher' = "closed"
    /\ closedBy' = "disposer"
    /\ UNCHANGED <<source, outFile, stray, tasks, dirHandlers, compilePc, compileList,
                   compileIdx, shouldWatch, watchStartedBy, rootIsCwd, nCaught, nEvents>>
    /\ UNCHANGED genVars

-----------------------------------------------------------------------------
(* compile({ watch }, config) on a project, then the watch session *)

InitialSources(u) ==
    IF u = UnitIds[1]
    THEN {NoSource(u), InvalidSource(u), Data(Hello(u)), Data(Broken(u))}
    ELSE {Data(Hello(u)), Data(Broken(u))}

Init ==
    /\ GenIdle
    /\ source \in {f \in [UnitSet -> UNION {InitialSources(u) : u \in UnitSet}] :
                     \A u \in UnitSet : f[u] \in InitialSources(u)}
    /\ outFile = [u \in UnitSet |-> NoFile]
    /\ stray = [u \in UnitSet |-> FALSE]
    /\ tasks = <<>>
    /\ dirHandlers = <<>>
    /\ compilePc = "loading"
    /\ compileList = <<>>
    /\ compileIdx = 0
    /\ shouldWatch \in BOOLEAN
    /\ watcher = "none"
    /\ watchStartedBy = "nobody"
    /\ closedBy = "nobody"
    /\ rootIsCwd \in BOOLEAN
    /\ nCaught = 0
    /\ nEvents = 0

Next ==
    \/ CompileLoad
    \/ \E i \in 1..Len(tasks) : \E partial \in BOOLEAN : ReadDone(i, partial)
    \/ \E i \in 1..Len(tasks) : \E ok, torn \in BOOLEAN : WriteDone(i, ok, torn)
    \/ \E u \in UnitSet : \E cls \in {"dev", "alt", "other"} :
          \E edit \in Edits(u) \cup {NoEdit(u)} : FileEvent(u, cls, edit)
    \/ \E i \in 1..Len(tasks) : LoadDone(i)
    \/ \E d \in UnitSet \cup {OtherDir} : AddDir(d)
    \/ \E j \in 1..Len(dirHandlers) : \E ok \in BOOLEAN : DirWriteDone(j, ok)
    \/ Dispose

Spec == Init /\ [][Next]_vars

-----------------------------------------------------------------------------
(* generateRuntime called twice in succession on one unchanged unit *)

TwiceInputs ==
    {Unit(UnitIds[1], Msg(a), f) : a \in AstInputs, f \in {NoMsg, Msg(<<Lit>>)}}

TwiceInit ==
    /\ GenIdle
    /\ \E lt \in TwiceInputs :
         /\ source = [u \in UnitSet |-> IF u = UnitIds[1] THEN Data(lt) ELSE NoSource(u)]
         /\ \E f \in {NoFile, TornFile, Declaration(lt), Declaration(HelloName(UnitIds[1]))} :
              outFile = [u \in UnitSet |-> IF u = UnitIds[1] THEN f ELSE NoFile]
    /\ stray = [u \in UnitSet |-> FALSE]
    /\ tasks = <<>>
    /\ dirHandlers = <<>>
    /\ compilePc = "off"
    /\ compileList = <<>>
    /\ compileIdx = 0
    /\ shouldWatch = FALSE
    /\ watcher = "none"
    /\ watchStartedBy = "nobody"
    /\ closedBy = "nobody"
    /\ rootIsCwd = TRUE
    /\ nCaught = 0
    /\ nEvents = 0

\* a caller invokes generateRuntime(unit); the second call follows the first
\* one's settling
DirectCall ==
    /\ compilePc = "off"
    /\ Len(tasks) < 2
    /\ \A i \in 1..Len(tasks) : tasks[i].pc \in {"resolved", "rejected"}
    /\ LET lt == source[UnitIds[1]].data
       IN tasks' = Append(tasks,
                     SettleIfFailed(Generate(NewTask("direct", UnitIds[1],
                                                     "read", lt), lt)))
    /\ UNCHANGED <<source, outFile, stray, dirHandlers, compilePc, compileList,
                   compileIdx, shouldWatch, watcher, watchStartedBy, closedBy,
                   rootIsCwd, nCaught, nEvents>>
    /\ UNCHANGED genVars

TwiceNext ==
    \/ DirectCall
    \/ \E i \in 1..Len(tasks) : \E partial \in BOOLEAN : ReadDone(i, partial)
    \/ \E i \in 1..Len(tasks) : \E ok, torn \in BOOLEAN : WriteDone(i, ok, torn)

SpecTwice == TwiceInit /\ [][TwiceNext]_vars

-----------------------------------------------------------------------------
(* Claims about generateRuntime called twice (checked under SpecTwice) *)

BothResolved ==
    /\ Len(tasks) = 2
    /\ \A i \in 1..2 : tasks[i].owner = "direct" /\ tasks[i].pc = "resolved"

\* the number of fs.writeFile calls of the tasks
Writes == Cardinality({i \in 1..Len(tasks) : tasks[i].wrote})

-----------------------------------------------------------------------------
(* Claims about compile and the watcher (checked under Spec) *)

CompileTasks == SelectSeq(tasks, LAMBDA t : t.owner = "compile")
WatchTasks == SelectSeq(tasks, LAMBDA t : t.owner = "watch")
Settled(t) == t.pc \in {"resolved", "rejected"}

\* C2: every error of loadTranslation or generateRuntime in an 'add' or
\* 'change' handler is caught in the handler (its promise never rejects);
\* the watch session stays open and is closed only by the disposer.
C2_FileEventIsolation ==
    /\ \A i \in 1..Len(tasks) : tasks[i].owner = "watch" => tasks[i].pc # "rejected"
    /\ \A i \in 1..Len(tasks) : tasks[i].caught => tasks[i].pc = "resolved"
    /\ watcher = "closed" => closedBy = "disposer"
    /\ nCaught > 0 => watcher # "none"

\* C2 witness: after a handler caught a failure, the session is still open and
\* a later event was handled to the end, writing the module file
C2_Witness ==
    /\ watcher = "open"
    /\ \E i, j \in 1..Len(tasks) :
         /\ i < j
         /\ tasks[i].owner = "watch" /\ tasks[i].caught
         /\ tasks[j].owner = "watch" /\ tasks[j].caughtBefore > 0
         /\ tasks[j].pc = "resolved" /\ ~tasks[j].caught /\ tasks[j].wrote

\* C3: compile generates the loaded units strictly one after another in list
\* order; when generateRuntime fails on unit i, no later unit is generated,
\* compile rejects, the watcher is not started even with the watch option,
\* and the units before i are generated and written.
C3_CompileAbortsOnFirstFailure ==
    LET ct == CompileTasks IN
    /\ Len(ct) <= Len(compileList)
    /\ \A k \in 1..Len(ct) :
         /\ ct[k].data = compileList[k]
         /\ k < Len(ct) => ct[k].pc = "resolved"
    /\ compilePc = "generating" => (Len(ct) = compileIdx /\ ~Settled(ct[Len(ct)]))
    /\ (compilePc = "rejected" /\ Len(ct) > 0) =>
         /\ ct[Len(ct)].pc = "rejected"
         /\ Len(ct) = compileIdx
         /\ \A k \in 1..(Len(ct) - 1) : outFile[ct[k].target] = ct[k].contents
    /\ compilePc = "rejected" => (watcher = "none" /\ watchStartedBy = "nobody")
    /\ watcher # "none" =>
         /\ shouldWatch /\ compilePc = "resolved"
         /\ Len(ct) = Len(compileList)
         /\ \A k \in 1..Len(ct) : ct[k].pc = "resolved"

\* C3 witness: with the watch option set, the second unit failed after the
\* first was written; compile rejected and no watcher runs
C3_Witness ==
    /\ compilePc = "rejected" /\ shouldWatch /\ watcher = "none"
    /\ Len(CompileTasks) = 2
    /\ CompileTasks[1].pc = "resolved" /\ CompileTasks[1].wrote
    /\ CompileTasks[2].pc = "rejected"

\* C7: on a directory-added event for a directory of the translation shape
\* without an authoring file, the watcher writes exactly one authoring file
\* (the empty object) into it; for a directory that has the file or is not
\* of the shape it writes nothing; an existing authoring file is never
\* overwritten.
C7_SeedNewDirectory ==
    \A j \in 1..Len(dirHandlers) :
        LET h == dirHandlers[j] IN
        /\ (h.matches /\ ~h.hadFile) => (h.wrote /\ (h.pc = "resolved" => h.created))
        /\ (~h.matches \/ h.hadFile) => ~h.wrote
        /\ ~h.overwrote

\* C8: no watcher handler's failure escapes: neither an 'add'/'change' handler
\* nor the directory-added handler ever settles rejected.
C8_EveryHandlerIsolated ==
    /\ \A i \in 1..Len(tasks) : tasks[i].owner = "watch" => tasks[i].pc # "rejected"
    /\ \A j \in 1..Len(dirHandlers) : dirHandlers[j].pc # "rejected"

\* C10: once all regenerations of a unit have completed (all without error,
\* the watcher open throughout, so that every change of the source data had
\* its event), the module file equals the output of the most recent source
\* data, and it is the complete output of one load, never a mixture.
C10_NoLostEdit ==
    \A u \in UnitSet :
        ( /\ watcher = "open"
          /\ \A i \in 1..Len(tasks) : Settled(tasks[i]) /\ ~tasks[i].caught
          /\ \E i \in 1..Len(tasks) : tasks[i].owner = "watch" /\ tasks[i].target = u
          /\ \A i \in 1..Len(tasks) : tasks[i].pc = "resolved"
          /\ source[u].kind = "data" )
        => /\ outFile[u].kind # "torn"
           /\ outFile[u] = Declaration(source[u].data)

====
